---- MODULE Spec2Model ----
(***************************************************************************)
(* A model of fw_tabulate_scans.py: the Flywheel project is walked (or     *)
(* queried), the metadata of every nifti file is extracted by              *)
(* get_file_data, collected in the info dict and exported as a csv table.  *)
(*                                                                         *)
(* Two specifications:                                                     *)
(*   Spec    one run of main() against a remote project that does not      *)
(*           change during the run;                                        *)
(*   SpecFD  get_file_data(f, acq) applied to every shape of file          *)
(*           metadata.                                                     *)
(*                                                                         *)
(* Python values are modelled as tuples whose first element is the type,   *)
(* so that values of different Python types can be compared.               *)
(***************************************************************************)
EXTENDS Integers, Sequences, FiniteSets, TLC

VARIABLES
    files,      \* the remote project's files: file id -> [acq, type, created, info]
    args,       \* the parsed command line: [project, output, date]
    pc,         \* position of main()
    err,        \* the exception that ended the run ("none" while running)
    clients,    \* number of flywheel.Client() constructions so far
    calls,      \* remote calls made so far: {<<operation, client number>>}
    project,    \* the project handle returned by find_first ("unset", "None" or a label)
    extractor,  \* which extractor main() chose: "none", "all" or "recent"
    min_date,   \* main()'s min_date: <<>> is None, <<d>> the date d
    info,       \* the info dict (Result Table): file id -> Record
    subs,       \* get_all_metadata_for: subjects still to visit (first = current)
    sess,       \* get_all_metadata_for: sessions of the current subject still to visit
    acqs,       \* get_all_metadata_for: acquisitions of the current session still to visit
    count,      \* get_all_metadata_for: total of the current subject's progress bar
    ses,        \* the local variable ses (a session handle)
    acq,        \* the local variable acq (an acquisition handle)
    todo,       \* files of acq.files not yet iterated
    results,    \* get_recent_metadata_for: the search results
    resIdx,     \* get_recent_metadata_for: index of the result being processed
    csv,        \* the output file: [written, columns, rows]
    fdPc,       \* SpecFD: "input" before the call of get_file_data, "called" after
    fdF,        \* SpecFD: the file handed to get_file_data
    fdAcq,      \* SpecFD: the acquisition handed to get_file_data
    fdOut       \* SpecFD: what the call produced

mainVars == <<files, args, pc, err, clients, calls, project, extractor, min_date,
              info, subs, sess, acqs, count, ses, acq, todo, results, resIdx, csv>>
fdVars == <<fdPc, fdF, fdAcq, fdOut>>
vars == <<mainVars, fdVars>>

----------------------------------------------------------------------------
(* Bounds of the model *)

MaxFiles == 2       \* files in the remote project
MaxResults == 2     \* longest answer of the structured query

(* Program constants *)

SecondsPerDay == 86400  \* datetime(date.year, date.month, date.day, tzinfo=UTC)

----------------------------------------------------------------------------
(* Python values *)

PyStr(s) == <<"str", s>>
PyNone == <<"None">>
NaN == <<"nan">>        \* np.NaN
NaT == <<"NaT">>        \* pd.NaT
PyDateTime(d, t) == <<"datetime", d, t>>

(* The metadata keys get_file_data reads *)
InfoKeys == {"SeriesNumber", "AcquisitionDateTime", "AcquisitionTime", "AcquisitionDate"}

(* f.info is a mapping of some of the keys to values, or (mapping = FALSE)
   something that cannot be subscripted, such as None. *)
NoInfo == [mapping |-> FALSE, items |-> <<>>]
Mapping(items) == [mapping |-> TRUE, items |-> items]

(* Outcome of evaluating an expression: a value, or a raised exception. *)
Ok(v) == [raised |-> FALSE, exc |-> "none", val |-> v]
Raise(e) == [raised |-> TRUE, exc |-> e, val |-> PyNone]

(* f.info[key] *)
Subscript(finfo, key) ==
    IF ~finfo.mapping THEN Raise("TypeError")
    ELSE IF key \notin DOMAIN finfo.items THEN Raise("KeyError")
    ELSE Ok(finfo.items[key])

(* Time-of-day strings that time.fromisoformat() parses: HH:MM:SS. The DICOM
   form HHMMSS.ffffff and values that are no strings are rejected. *)
IsoTimes == {PyStr("10:00:00")}

(* time.fromisoformat(v) *)
TimeFromIsoformat(v) ==
    IF v[1] # "str" THEN Raise("TypeError")
    ELSE IF v \notin IsoTimes THEN Raise("ValueError")
    ELSE Ok(<<"time", v[2]>>)

(* acq.timestamp.date() *)
TimestampDate(a) ==
    IF a.timestamp[1] # "datetime" THEN Raise("AttributeError")
    ELSE Ok(<<"date", a.timestamp[2]>>)

(* datetime.combine(acq.timestamp.date(), time.fromisoformat(f.info['AcquisitionTime'])):
   Python evaluates the arguments left to right. *)
CombinedTimestamp(f, a) ==
    LET d == TimestampDate(a)
        s == Subscript(f.info, "AcquisitionTime")
        t == IF s.raised THEN s ELSE TimeFromIsoformat(s.val)
    IN  IF d.raised THEN d
        ELSE IF t.raised THEN t
        ELSE Ok(PyDateTime(d.val[2], t.val[2]))

(* Lines 39-44: try: seriesNum = f.info['SeriesNumber'] / except: np.NaN *)
SeriesNum_validated(f) ==
    LET r == Subscript(f.info, "SeriesNumber")
    IN  IF r.raised \/ r.val[1] # "int" THEN NaN ELSE r.val

SeriesNum(f) ==
    LET r == Subscript(f.info, "SeriesNumber")
    IN  IF r.raised THEN NaN ELSE r.val

(* Lines 46-57: the nested try blocks. Only the outermost handler is
   restricted to KeyError; the two inner ones catch everything. *)
Timestamp_dateFirst(f, a) ==
    LET r1 == Subscript(f.info, "AcquisitionDateTime")
        r2 == CombinedTimestamp(f, a)
        r3 == Subscript(f.info, "AcquisitionDate")
    IN  IF ~r1.raised THEN r1
        ELSE IF r1.exc # "KeyError" THEN r1
        ELSE IF ~r3.raised THEN r3
        ELSE IF ~r2.raised THEN r2
        ELSE Ok(NaT)

Timestamp(f, a) ==
    LET r1 == Subscript(f.info, "AcquisitionDateTime")
        r2 == CombinedTimestamp(f, a)
        r3 == Subscript(f.info, "AcquisitionDate")
    IN  IF ~r1.raised THEN r1
        ELSE IF r1.exc # "KeyError" THEN r1      \* except KeyError: anything else propagates
        ELSE IF ~r2.raised THEN r2
        ELSE IF ~r3.raised THEN r3
        ELSE Ok(NaT)

(* get_file_data(f, acq): (fileId, seriesNum, timestamp), or an exception *)
GetFileData(f, a) ==
    LET ts == Timestamp(f, a)
    IN  IF ts.raised THEN Raise(ts.exc)
        ELSE Ok([fileId |-> f.id, seriesNum |-> SeriesNum(f), timestamp |-> ts.val])

----------------------------------------------------------------------------
(* SpecFD: get_file_data on every shape of metadata *)

SeriesNumberValues == {<<"int", "3">>, PyStr("n/a"), PyNone}
DateTimeValues == {PyStr("2021-01-01T10:00:00")}
TimeValues == {PyStr("10:00:00"), PyStr("100000.000000"), <<"int", "100000">>}
DateValues == {PyStr("2021-01-01")}

ValuesOf(k) ==
    CASE k = "SeriesNumber" -> SeriesNumberValues
      [] k = "AcquisitionDateTime" -> DateTimeValues
      [] k = "AcquisitionTime" -> TimeValues
      [] k = "AcquisitionDate" -> DateValues

(* Every mapping of a subset of the keys to values of the key *)
Mappings ==
    UNION {{m \in [K -> UNION {ValuesOf(k) : k \in K}] : \A k \in K : m[k] \in ValuesOf(k)}
           : K \in SUBSET InfoKeys}

FDInfos == {NoInfo} \cup {Mapping(m) : m \in Mappings}
FDTimestamps == {PyNone, PyDateTime("2021-01-02", "09:30:00")}

FDNone == Raise("not called")

FDInit ==
    /\ fdPc = "input"
    /\ fdF \in {[id |-> 1, info |-> i] : i \in FDInfos}
    /\ fdAcq \in {[timestamp |-> t] : t \in FDTimestamps}
    /\ fdOut = FDNone

FDCall ==
    /\ fdPc = "input"
    /\ fdOut' = GetFileData(fdF, fdAcq)
    /\ fdPc' = "called"
    /\ UNCHANGED <<fdF, fdAcq>>

----------------------------------------------------------------------------
(* The remote project. Its shape is fixed; its files vary.

       S1 -- V1 -- A1        S2 -- V3 -- A2
          \- V2 (no acquisition)
*)

Subjects == <<"S1", "S2">>

SessionsOf(sub) == IF sub = "S1" THEN <<"V1", "V2">> ELSE <<"V3">>

AcquisitionsOf(s) ==
    CASE s = "V1" -> <<"A1">>
      [] s = "V2" -> <<>>
      [] s = "V3" -> <<"A2">>

AcqIds == {"A1", "A2"}
SessionOf(a) == IF a = "A1" THEN "V1" ELSE "V3"
SubjectOf(s) == IF s = "V3" THEN "S2" ELSE "S1"

FileIds == 1 .. MaxFiles

(* The date given with -t, and the instants around its midnight (UTC),
   in seconds since the epoch. *)
IsoDates == {"2021-01-01"}
EpochDay(d) == 18628
Midnight(d) == EpochDay(d) * SecondsPerDay
CreatedTimes == UNION {{Midnight(d) - 1, Midnight(d), Midnight(d) + 1} : d \in IsoDates}

FileTypes == {"nifti", "dicom"}

(* The metadata of the files of a run: none at all, or a mapping with a
   series number and a time of day. *)
MainInfos ==
    {NoInfo,
     Mapping([k \in {"SeriesNumber", "AcquisitionTime"} |->
                 IF k = "SeriesNumber" THEN <<"int", "3">> ELSE PyStr("10:00:00")])}

FileRecs == [acq : AcqIds, type : FileTypes, created : CreatedTimes, info : MainInfos]

RECURSIVE SortedSeq(_)
SortedSeq(S) ==
    IF S = {} THEN <<>>
    ELSE LET m == CHOOSE x \in S : \A y \in S : x <= y
         IN  <<m>> \o SortedSeq(S \ {m})

(* A file object as the SDK hands it out *)
FileHandle(i) ==
    [id |-> i, name |-> <<"file", i>>, type |-> files[i].type,
     created |-> files[i].created, info |-> files[i].info]

(* An acquisition handle: `via` is the call that produced the object. *)
AcqHandle(a, via) ==
    [id |-> a, via |-> via, label |-> <<"label", a>>,
     timestamp |-> PyDateTime("2021-01-02", "09:30:00"),
     files |-> SortedSeq({i \in FileIds : files[i].acq = a})]

SesHandle(s, via) == [id |-> s, via |-> via, label |-> <<"label", s>>]

NoAcq == [id |-> "none", via |-> "none", label |-> <<"label", "none">>,
          timestamp |-> PyNone, files |-> <<>>]
NoSes == SesHandle("none", "none")

(* x.reload(): a new object fetched from the server; x itself is untouched. *)
ReloadAcq(h) == AcqHandle(h.id, "reload")
ReloadSes(h) == SesHandle(h.id, "reload")

(* fw.get_acquisition(acqid) *)
GetAcquisition(a) == AcqHandle(a, "get_acquisition")

(* One search result: the acquisition with its subject and session attached *)
SearchResult(a) ==
    [subject |-> [code |-> SubjectOf(SessionOf(a))],
     session |-> [label |-> <<"label", SessionOf(a)>>],
     acquisition |-> [id |-> a]]

ResultSeqs ==
    UNION {[1 .. n -> {SearchResult(a) : a \in AcqIds}] : n \in 0 .. MaxResults}

----------------------------------------------------------------------------
(* Helpers of main() and the extractors *)

(* flywheel.Client(): one more client *)
NewClient_reused(n) == IF n = 0 THEN 1 ELSE n

NewClient(n) == n + 1

(* The client behind the project handle and every object reached from it *)
ProjectClient == CHOOSE c \in 0 .. clients : <<"find_first", c>> \in calls

(* assert project *)
AssertProject_removed(p) == TRUE

AssertProject(p) == p # "None"

(* assert results *)
AssertResults(rs) == rs # <<>>

(* datetime.fromisoformat(args.date).date() *)
DateFromIsoformat(s) == IF s \in IsoDates THEN Ok(<<"date", s>>) ELSE Raise("ValueError")

(* Line 97: f.type == 'nifti' *)
AllFilter_any(f) == TRUE

AllFilter(f) == f.type = "nifti"

(* Line 152: f.type=='nifti' and f.created >= datetime(date.year, date.month, date.day, tzinfo=pytz.UTC) *)
RecentFilter_strict(f, date) == f.type = "nifti" /\ f.created > Midnight(date)

RecentFilter(f, date) == f.type = "nifti" /\ f.created >= Midnight(date)

(* Lines 103 and 158: the list stored under the file id. f.created.replace(tzinfo=None)
   keeps the clock reading. *)
Record(subid, sesid, a, f, d) ==
    <<subid, sesid, a.label, f.name, d.seriesNum, d.timestamp, <<"naive", f.created>>>>

EmptyInfo == [i \in {} |-> <<>>]

(* info[fileId] = [...] *)
Insert_fresh(table, k, v) == [i \in {k} |-> v]

Insert(table, k, v) == [i \in DOMAIN table \cup {k} |-> IF i = k THEN v ELSE table[i]]

(* Line 211 *)
Columns == <<"FlywheelFileId", "SubjectId", "SessionId", "AcqLabel", "Filename",
             "SeriesNumber", "Timestamp", "Created">>

(* pd.DataFrame.from_dict(info, orient='index').reset_index(): one column for the
   index, and one per element of the longest list (none for an empty dict) *)
FrameWidth(table) ==
    1 + (IF DOMAIN table = {} THEN 0
         ELSE CHOOSE n \in 0 .. 7 : /\ \E k \in DOMAIN table : Len(table[k]) = n
                                    /\ \A k \in DOMAIN table : Len(table[k]) <= n)

FrameRows(table) == {<<k>> \o table[k] : k \in DOMAIN table}

NoCsv == [written |-> FALSE, columns |-> <<>>, rows |-> {}]

----------------------------------------------------------------------------
(* Spec: one run of main() *)

DateArgs == {"", "yesterday"} \cup IsoDates
OutputArgs == {"", "out"}

NoArgs == [project |-> "", output |-> "", date |-> ""]

Init ==
    /\ files \in [FileIds -> FileRecs]
    /\ args = NoArgs
    /\ pc = "main"
    /\ err = "none"
    /\ clients = 0
    /\ calls = {}
    /\ project = "unset"
    /\ extractor = "none"
    /\ min_date = <<>>
    /\ info = EmptyInfo
    /\ subs = <<>>
    /\ sess = <<>>
    /\ acqs = <<>>
    /\ count = 0
    /\ ses = NoSes
    /\ acq = NoAcq
    /\ todo = <<>>
    /\ results = <<>>
    /\ resIdx = 0
    /\ csv = NoCsv
    /\ fdPc = "off"
    /\ fdF = [id |-> 0, info |-> NoInfo]
    /\ fdAcq = [timestamp |-> PyNone]
    /\ fdOut = FDNone

(* An uncaught exception ends the run. *)
Fatal(e) ==
    /\ pc' = "fatal"
    /\ err' = e

walkVars == <<subs, sess, acqs, count, ses, acq, todo>>
queryVars == <<results, resIdx>>

(* Lines 169-183: parser.parse_args() *)
ParseArgs ==
    /\ pc = "main"
    /\ \E d \in DateArgs, o \in OutputArgs :
           args' = [project |-> "proj", output |-> o, date |-> d]
    /\ pc' = "get_project"
    /\ UNCHANGED <<files, err, clients, calls, project, extractor, min_date, info,
                   walkVars, queryVars, csv, fdVars>>

(* Lines 19-30: get_project(args.project). The platform either knows the
   credentials or not, and the project label or not. *)
GetProject ==
    /\ pc = "get_project"
    /\ \E credentials \in BOOLEAN, found \in {"None", "proj"} :
           IF ~credentials
           THEN /\ Fatal("AuthenticationError")
                /\ UNCHANGED <<clients, calls, project>>
           ELSE /\ clients' = NewClient(clients)
                /\ calls' = calls \cup {<<"find_first", clients'>>}
                /\ project' = found
                /\ IF AssertProject(found)
                   THEN pc' = "select" /\ err' = err
                   ELSE Fatal("AssertionError: project not found")
    /\ UNCHANGED <<files, args, extractor, min_date, info, walkVars, queryVars, csv, fdVars>>

(* Lines 190-207: the choice of the extractor *)
SelectExtractor ==
    /\ pc = "select"
    /\ IF args.date # ""
       THEN LET d == DateFromIsoformat(args.date)
            IN  IF d.raised
                THEN Fatal(d.exc) /\ UNCHANGED <<min_date, extractor>>
                ELSE /\ min_date' = <<d.val[2]>>
                     /\ extractor' = "recent"
                     /\ pc' = "recent_begin"
                     /\ err' = err
       ELSE /\ min_date' = <<>>
            /\ extractor' = "all"
            /\ pc' = "all_begin"
            /\ err' = err
    /\ UNCHANGED <<files, args, clients, calls, project, info, walkVars, queryVars, csv, fdVars>>

(* Lines 74-77: info = {} and project.subjects() *)
AllBegin ==
    /\ pc = "all_begin"
    /\ info' = EmptyInfo
    /\ subs' = Subjects
    /\ calls' = calls \cup {<<"subjects", ProjectClient>>}
    /\ pc' = "all_subject"
    /\ UNCHANGED <<files, args, err, clients, project, extractor, min_date,
                   sess, acqs, count, ses, acq, todo, queryVars, csv, fdVars>>

RECURSIVE SumLen(_)
SumLen(q) == IF q = <<>> THEN 0 ELSE Len(AcquisitionsOf(Head(q))) + SumLen(Tail(q))

(* Lines 77-88: the next subject; its acquisitions are counted, then its
   sessions are listed. Line 109 once the subjects are exhausted. *)
AllSubject ==
    /\ pc = "all_subject"
    /\ IF subs = <<>>
       THEN /\ pc' = "export"
            /\ UNCHANGED <<calls, count, sess>>
       ELSE /\ count' = SumLen(SessionsOf(Head(subs)))
            /\ sess' = SessionsOf(Head(subs))
            /\ calls' = calls \cup {<<"sessions", ProjectClient>>,
                                    <<"acquisitions", ProjectClient>>}
            /\ pc' = "all_session"
    /\ UNCHANGED <<files, args, err, clients, project, extractor, min_date, info,
                   subs, acqs, ses, acq, todo, queryVars, csv, fdVars>>

(* Lines 88-92: ses = ses.reload() and ses.acquisitions() *)
AllSession ==
    /\ pc = "all_session"
    /\ IF sess = <<>>
       THEN /\ subs' = Tail(subs)
            /\ pc' = "all_subject"
            /\ UNCHANGED <<calls, ses, acqs>>
       ELSE /\ ses' = ReloadSes(SesHandle(Head(sess), "list"))
            /\ acqs' = AcquisitionsOf(Head(sess))
            /\ calls' = calls \cup {<<"reload_session", ProjectClient>>,
                                    <<"acquisitions", ProjectClient>>}
            /\ pc' = "all_acquisition"
            /\ subs' = subs
    /\ UNCHANGED <<files, args, err, clients, project, extractor, min_date, info,
                   sess, count, acq, todo, queryVars, csv, fdVars>>

(* Lines 92-96: acq = acq.reload() and acq.files *)
AllAcquisition ==
    /\ pc = "all_acquisition"
    /\ IF acqs = <<>>
       THEN /\ sess' = Tail(sess)
            /\ pc' = "all_session"
            /\ UNCHANGED <<calls, acq, todo>>
       ELSE /\ acq' = ReloadAcq(AcqHandle(Head(acqs), "list"))
            /\ todo' = acq'.files
            /\ calls' = calls \cup {<<"reload_acquisition", ProjectClient>>}
            /\ pc' = "all_file"
            /\ sess' = sess
    /\ UNCHANGED <<files, args, err, clients, project, extractor, min_date, info,
                   subs, acqs, count, ses, queryVars, csv, fdVars>>

(* Lines 96-106: one file of acq.files; pbar.update(1) after the last *)
AllFile ==
    /\ pc = "all_file"
    /\ IF todo = <<>>
       THEN /\ acqs' = Tail(acqs)
            /\ pc' = "all_acquisition"
            /\ UNCHANGED <<err, info, todo>>
       ELSE LET f == FileHandle(Head(todo))
                d == GetFileData(f, acq)
            IN  /\ acqs' = acqs
                /\ IF ~AllFilter(f)
                   THEN /\ todo' = Tail(todo)
                        /\ UNCHANGED <<pc, err, info>>
                   ELSE IF d.raised
                   THEN /\ Fatal(d.exc)
                        /\ UNCHANGED <<info, todo>>
                   ELSE /\ info' = Insert(info, d.val.fileId,
                                          Record(Head(subs), ses.label, acq, f, d.val))
                        /\ todo' = Tail(todo)
                        /\ UNCHANGED <<pc, err>>
    /\ UNCHANGED <<files, args, clients, calls, project, extractor, min_date,
                   subs, sess, count, ses, acq, queryVars, csv, fdVars>>

(* Lines 124-136: a client, the structured query, assert results, info = {} *)
RecentSearch ==
    /\ pc = "recent_begin"
    /\ clients' = NewClient(clients)
    /\ calls' = calls \cup {<<"search", clients'>>}
    /\ \E rs \in ResultSeqs :
           /\ results' = rs
           /\ IF AssertResults(rs)
              THEN /\ info' = EmptyInfo
                   /\ resIdx' = 1
                   /\ pc' = "recent_result"
                   /\ err' = err
              ELSE /\ Fatal("AssertionError: no results")
                   /\ UNCHANGED <<info, resIdx>>
    /\ UNCHANGED <<files, args, project, extractor, min_date, walkVars, csv, fdVars>>

(* Lines 139-151: the next result: fw.get_acquisition(acqid); acq.reload(),
   whose value is dropped; acq.files. Line 161 once the results are exhausted. *)
RecentResult ==
    /\ pc = "recent_result"
    /\ IF resIdx > Len(results)
       THEN /\ pc' = "export"
            /\ UNCHANGED <<calls, acq, todo>>
       ELSE LET fetched == GetAcquisition(results[resIdx].acquisition.id)
                refreshed == ReloadAcq(fetched)
            IN  /\ acq' = fetched
                /\ todo' = acq'.files
                /\ calls' = calls \cup {<<"get_acquisition", clients>>,
                                        <<"reload_acquisition", clients>>}
                /\ pc' = "recent_file"
    /\ UNCHANGED <<files, args, err, clients, project, extractor, min_date, info,
                   subs, sess, acqs, count, ses, queryVars, csv, fdVars>>

(* Lines 151-158: one file of acq.files *)
RecentFile ==
    /\ pc = "recent_file"
    /\ IF todo = <<>>
       THEN /\ resIdx' = resIdx + 1
            /\ pc' = "recent_result"
            /\ UNCHANGED <<err, info, todo>>
       ELSE LET f == FileHandle(Head(todo))
                d == GetFileData(f, acq)
                res == results[resIdx]
            IN  /\ resIdx' = resIdx
                /\ IF ~RecentFilter(f, min_date[1])
                   THEN /\ todo' = Tail(todo)
                        /\ UNCHANGED <<pc, err, info>>
                   ELSE IF d.raised
                   THEN /\ Fatal(d.exc)
                        /\ UNCHANGED <<info, todo>>
                   ELSE /\ info' = Insert(info, d.val.fileId,
                                          Record(res.subject.code, res.session.label,
                                                 acq, f, d.val))
                        /\ todo' = Tail(todo)
                        /\ UNCHANGED <<pc, err>>
    /\ UNCHANGED <<files, args, clients, calls, project, extractor, min_date,
                   subs, sess, acqs, count, ses, acq, results, csv, fdVars>>

(* Lines 209-217: the data frame, its column names, the directory, the csv.
   Naming 8 columns fails on a frame of another width; os.makedirs('')
   fails with FileNotFoundError. *)
Export ==
    /\ pc = "export"
    /\ IF FrameWidth(info) # Len(Columns)
       THEN Fatal("ValueError: Length mismatch") /\ csv' = csv
       ELSE IF args.output = ""
       THEN Fatal("FileNotFoundError") /\ csv' = csv
       ELSE /\ csv' = [written |-> TRUE, columns |-> Columns, rows |-> FrameRows(info)]
            /\ pc' = "done"
            /\ err' = err
    /\ UNCHANGED <<files, args, clients, calls, project, extractor, min_date, info,
                   walkVars, queryVars, fdVars>>

(* A remote call of the step about to run raises (network, server): nothing
   catches it. *)
RemoteCallFails ==
    /\ \/ pc \in {"all_begin", "recent_begin"}
       \/ pc = "all_subject" /\ subs # <<>>
       \/ pc = "all_session" /\ sess # <<>>
       \/ pc = "all_acquisition" /\ acqs # <<>>
       \/ pc = "recent_result" /\ resIdx <= Len(results)
    /\ Fatal("RemoteError")
    /\ UNCHANGED <<files, args, clients, calls, project, extractor, min_date, info,
                   walkVars, queryVars, csv, fdVars>>

Next ==
    \/ ParseArgs
    \/ GetProject
    \/ SelectExtractor
    \/ AllBegin
    \/ AllSubject
    \/ AllSession
    \/ AllAcquisition
    \/ AllFile
    \/ RecentSearch
    \/ RecentResult
    \/ RecentFile
    \/ Export
    \/ RemoteCallFails

Spec == Init /\ [][Next]_vars

(* SpecFD *)
FDStart ==
    /\ FDInit
    /\ files = [i \in FileIds |-> CHOOSE r \in FileRecs : TRUE]
    /\ args = NoArgs
    /\ pc = "off"
    /\ err = "none"
    /\ clients = 0
    /\ calls = {}
    /\ project = "unset"
    /\ extractor = "none"
    /\ min_date = <<>>
    /\ info = EmptyInfo
    /\ subs = <<>>
    /\ sess = <<>>
    /\ acqs = <<>>
    /\ count = 0
    /\ ses = NoSes
    /\ acq = NoAcq
    /\ todo = <<>>
    /\ results = <<>>
    /\ resIdx = 0
    /\ csv = NoCsv

FDNext == FDCall /\ UNCHANGED mainVars

SpecFD == FDStart /\ [][FDNext]_vars

----------------------------------------------------------------------------
(* Properties of get_file_data, checked under SpecFD *)

Called == fdPc = "called"
Returned == Called /\ ~fdOut.raised
Has(k) == fdF.info.mapping /\ k \in DOMAIN fdF.info.items
Item(k) == fdF.info.items[k]

(* AcquisitionTime is present and resolves: the acquisition has a timestamp
   and the stored value is an ISO time of day *)
TimeResolves ==
    /\ Has("AcquisitionTime")
    /\ Item("AcquisitionTime") \in IsoTimes
    /\ fdAcq.timestamp[1] = "datetime"

(* C2: the timestamp get_file_data returns is the first that resolves of
   AcquisitionDateTime, the acquisition's date combined with AcquisitionTime,
   AcquisitionDate; it is NaT when none resolves. *)
C2_FirstMatchWins ==
    (Called /\ fdF.info.mapping) =>
        /\ ~fdOut.raised
        /\ fdOut.val.timestamp =
              IF Has("AcquisitionDateTime") THEN Item("AcquisitionDateTime")
              ELSE IF TimeResolves
                   THEN PyDateTime(fdAcq.timestamp[2], Item("AcquisitionTime")[2])
              ELSE IF Has("AcquisitionDate") THEN Item("AcquisitionDate")
              ELSE NaT

(* The time of day wins over the date although both are present. *)
C2_Witness ==
    /\ Returned
    /\ ~Has("AcquisitionDateTime")
    /\ TimeResolves
    /\ Has("AcquisitionDate")
    /\ fdOut.val.timestamp[1] = "datetime"

(* C4: get_file_data returns normally, with the file's identifier, whatever
   the state of the optional metadata. *)
C4_NeverRaises ==
    Called => (~fdOut.raised /\ fdOut.val.fileId = fdF.id)

(* A series number is well formed when it is a number. *)
WellFormedSeriesNumber(v) == v[1] = "int"

(* C5, as claimed: the series number returned is the stored value when it is
   present and well formed, and absent when the key is missing or the stored
   value is malformed. *)
C5_MalformedIsAbsent ==
    Returned =>
        fdOut.val.seriesNum =
            IF Has("SeriesNumber") /\ WellFormedSeriesNumber(Item("SeriesNumber"))
            THEN Item("SeriesNumber")
            ELSE NaN

(* C5, amended: whenever get_file_data returns, the series number is the value
   stored under SeriesNumber if the key is present, whatever that value is,
   and NaN if the key is missing. *)
C5_StoredValuePassedThrough ==
    Returned =>
        fdOut.val.seriesNum =
            IF Has("SeriesNumber") THEN Item("SeriesNumber") ELSE NaN

(* A malformed stored value reaches the caller. *)
C5_Witness ==
    /\ Returned
    /\ Has("SeriesNumber")
    /\ ~WellFormedSeriesNumber(Item("SeriesNumber"))
    /\ fdOut.val.seriesNum = Item("SeriesNumber")

----------------------------------------------------------------------------
(* Properties of a run of main(), checked under Spec *)

NiftiIds == {i \in FileIds : files[i].type = "nifti"}

(* C1: when get_all_metadata_for returns, the keys of the table are exactly
   the ids of the project's nifti files, and the Record under an id is that of
   the file with this id. *)
C1_AllTableIsNifti ==
    (extractor = "all" /\ pc = "export") =>
        /\ DOMAIN info = NiftiIds
        /\ \A i \in DOMAIN info :
               /\ info[i][4] = <<"file", i>>
               /\ info[i][3] = <<"label", files[i].acq>>
               /\ info[i][1] = SubjectOf(SessionOf(files[i].acq))

(* The traversal returned over a project holding a nifti file and a file of
   another type. *)
C1_Witness ==
    /\ extractor = "all"
    /\ pc = "export"
    /\ NiftiIds # {}
    /\ NiftiIds # FileIds
    /\ DOMAIN info # {}

ReturnedAcqs == {results[k].acquisition.id : k \in 1 .. Len(results)}

(* C3: when get_recent_metadata_for returns, a file of a returned acquisition
   has a Record iff it is a nifti file created at or after 00:00:00 UTC of
   the minimum date. *)
C3_RecentTableIsQualifying ==
    (extractor = "recent" /\ pc = "export") =>
        \A i \in FileIds :
            files[i].acq \in ReturnedAcqs =>
                (i \in DOMAIN info <=>
                    /\ files[i].type = "nifti"
                    /\ files[i].created >= EpochDay(min_date[1]) * 86400)

(* One returned acquisition holds a nifti file created at the boundary, which
   has a Record, and a nifti file created one second earlier, which has none. *)
C3_Witness ==
    /\ extractor = "recent"
    /\ pc = "export"
    /\ \E i, j \in FileIds :
           /\ files[i].acq = files[j].acq
           /\ files[i].acq \in ReturnedAcqs
           /\ files[i].type = "nifti"
           /\ files[j].type = "nifti"
           /\ files[i].created = Midnight(min_date[1])
           /\ files[j].created = Midnight(min_date[1]) - 1
           /\ i \in DOMAIN info
           /\ j \notin DOMAIN info

Searched == \E c \in 0 .. clients : <<"search", c>> \in calls

(* C6: the output is written only after the project was resolved and the
   extractor returned; a run in which the project is not found, the query
   answers nothing or a remote call fails has ended with a fatal error, and a
   run ended by a fatal error has written nothing and takes no further step. *)
C6_OutputOnlyAfterSuccess ==
    /\ csv.written => (project = "proj" /\ extractor # "none" /\ pc = "done" /\ err = "none")
    /\ project = "None" => pc = "fatal"
    /\ (Searched /\ results = <<>>) => pc = "fatal"
    /\ err = "RemoteError" => pc = "fatal"
    /\ pc = "fatal" <=> err # "none"
    /\ pc = "fatal" => (~csv.written /\ ~ENABLED Next)

(* A run that wrote its table *)
C6_Witness ==
    /\ pc = "done"
    /\ csv.written
    /\ csv.rows # {}

ExportRan == pc = "done" \/ err \in {"ValueError: Length mismatch", "FileNotFoundError"}

(* C7: for every table an extractor returns, the empty one included, the
   export completes and writes one row per Record under the eight column
   names (stated for the runs that name an output directory). *)
C7_ExportWritesEveryTable ==
    (ExportRan /\ args.output # "") =>
        /\ csv.written
        /\ csv.columns = Columns
        /\ Cardinality(csv.rows) = Cardinality(DOMAIN info)

(* C8: the files get_recent_metadata_for iterates are those of the refreshed
   acquisition handle, as in get_all_metadata_for. *)
C8_IteratesRefreshedHandle ==
    pc \in {"all_file", "recent_file"} => acq.via = "reload"

(* C9, as claimed: a run constructs at most one client and every remote call
   goes through it. *)
C9_SingleClient ==
    /\ clients <= 1
    /\ \A c1, c2 \in calls : c1[2] = c2[2]

(* C9, amended: a run on the full-traversal path constructs one client, which
   makes every remote call; a run on the incremental path constructs a second
   one in get_recent_metadata_for: the project lookup goes through the first,
   the query, the acquisition fetches and refreshes through the second. *)
C9_ClientsPerPath ==
    /\ clients <= 2
    /\ project # "unset" => clients >= 1
    /\ (extractor = "all" \/ ~Searched) =>
           (clients <= 1 /\ \A c \in calls : c[2] = 1)
    /\ Searched =>
           /\ extractor = "recent"
           /\ clients = 2
           /\ \A c \in calls : c[2] = IF c[1] = "find_first" THEN 1 ELSE 2

(* The incremental path fetched an acquisition through the second client. *)
C9_Witness ==
    /\ extractor = "recent"
    /\ clients = 2
    /\ <<"find_first", 1>> \in calls
    /\ <<"get_acquisition", 2>> \in calls

(* C10: a Record, once in the table, stays there unchanged. *)
C10_TableOnlyGrows ==
    [][\A k \in DOMAIN info : k \in DOMAIN info' /\ info'[k] = info[k]]_vars

(* The query returned the same acquisition twice, and the second pass has
   stored the Record of its first file again. *)
C10_Witness ==
    /\ pc = "recent_file"
    /\ resIdx = 2
    /\ results[1] = results[2]
    /\ acq.files # <<>>
    /\ Len(todo) < Len(acq.files)
    /\ acq.files[1] \in DOMAIN info

====
